---- MODULE Spec2Model ----
(***************************************************************************)
(* Model of library/modules/Military.cpp: Military::makeSquad and          *)
(* Military::updateRoomAssignments acting on the host's world graph        *)
(* (settlement entity, squad registry, civilian zones, id and time         *)
(* globals).  Every call is one atomic step; `last` records the call that   *)
(* was made, the result of its two room lookups and what it returned.       *)
(***************************************************************************)
EXTENDS Integers, Sequences, FiniteSets, TLC

\* ------------------------------------------------------------------ bounds
MaxSquadSize == 2        \* configured squad sizes range over 0..MaxSquadSize
MaxInitId == 1           \* squad_next_id starts in 0..MaxInitId
MaxNextId == 2           \* no squad is created once squad_next_id has reached this
MaxFlags == 2            \* squad_use_flags.whole ranges over 0..MaxFlags

\* ------------------------------------------------------- program constants
NumMonths == 12          \* schedule slots per routine
NumWords == 7            \* word slots of a language_name
NoWord == -1             \* name.words[i]
NoSquadId == -1          \* entity_position_assignment::squad_id "none"
NoAssignment == -1       \* *order_assignments
NoActivity == -1         \* squad::activity
UnkV40 == -1             \* squad_order::unk_v40_3
CarryFood == 2
CarryWater == 1
SleepAtWill == 0
SleepReady == 2
UniformAlways == 0
UniformOrdersOnly == 1

StaggeredOdd == <<3, 4, 5, 9, 10, 11>>
StaggeredEven == <<0, 1, 2, 6, 7, 8>>

\* ----------------------------------------------------------- host's data
GroupId == 100           \* plotinfo->group_id, the settlement entity's id

\* fort->positions.own: the ids of the entity's positions, in list order
PositionIds == <<20, 10>>

\* fort->positions.assignments: id and position of each, in list order; the
\* position of the last one is not a position of the entity
Assignments ==
    << [id |-> 1, position_id |-> 10],
       [id |-> 2, position_id |-> 20],
       [id |-> 3, position_id |-> 30] >>

\* world->buildings by building id: two civilian zones and one other building
Buildings == <<"civzone", "civzone", "workshop">>

ZoneIds == {b \in 1 .. Len(Buildings) : Buildings[b] = "civzone"}

RoutineLists ==
    { <<"Off duty", "Staggered training", "Constant training", "Ready">>,
      <<"Constant training", "staggered training", "Patrol", "Staggered training">>,
      <<"Ready">> }

TimeValues == { [year |-> 250, tick |-> 1200], [year |-> 251, tick |-> 0] }

AssignmentArgs == 0 .. Len(Assignments)
SquadArgs == 0 .. MaxNextId
BuildingArgs == 1 .. (Len(Buildings) + 1)
FlagArgs == 0 .. MaxFlags

nullptr == [null |-> TRUE]

VARIABLES
    globals_available,   \* squad_next_id and plotinfo are non-null
    squad_next_id,       \* *df::global::squad_next_id
    cur_year,            \* *df::global::cur_year
    cur_year_tick,       \* *df::global::cur_year_tick
    routines,            \* plotinfo->alerts.routines, the routines' names
    fort_own,            \* fort->positions.own
    fort_assignments,    \* fort->positions.assignments
    fort_squads,         \* fort->squads
    squads_all,          \* world->squads.all
    squad_room_info,     \* zone->squad_room_info of each civilian zone
    last                 \* the last call: operation, arguments, lookups, result

vars == <<globals_available, squad_next_id, cur_year, cur_year_tick, routines,
          fort_own, fort_assignments, fort_squads, squads_all, squad_room_info, last>>

host == <<globals_available, cur_year, cur_year_tick, routines, fort_own>>

\* --------------------------------------------------------------- helpers
RECURSIVE InsertRoom(_, _)
InsertRoom(sorted, x) ==
    IF sorted = <<>> THEN <<x>>
    ELSE IF x.building_id < Head(sorted).building_id THEN <<x>> \o sorted
    ELSE <<Head(sorted)>> \o InsertRoom(Tail(sorted), x)

\* the list left in insertion order
SortRooms_None(rooms) == rooms

RECURSIVE SortRooms(_)
\* std::sort of squad->rooms, comparator a->building_id < b->building_id
SortRooms(rooms) ==
    IF rooms = <<>> THEN <<>>
    ELSE InsertRoom(SortRooms(SubSeq(rooms, 1, Len(rooms) - 1)), rooms[Len(rooms)])

RECURSIVE InsertRoomInfo(_, _)
InsertRoomInfo(sorted, x) ==
    IF sorted = <<>> THEN <<x>>
    ELSE IF x.squad_id < Head(sorted).squad_id THEN <<x>> \o sorted
    ELSE <<Head(sorted)>> \o InsertRoomInfo(Tail(sorted), x)

RECURSIVE SortRoomInfo(_)
\* std::sort of zone->squad_room_info, comparator a->squad_id < b->squad_id
SortRoomInfo(infos) ==
    IF infos = <<>> THEN <<>>
    ELSE InsertRoomInfo(SortRoomInfo(SubSeq(infos, 1, Len(infos) - 1)), infos[Len(infos)])

\* index of the first element with the given id-like field, 0 when there is none
FirstWithId(seq, id) ==
    IF \E i \in 1 .. Len(seq) : seq[i].id = id
    THEN CHOOSE i \in 1 .. Len(seq) :
            seq[i].id = id /\ \A j \in 1 .. i - 1 : seq[j].id # id
    ELSE 0

FirstRoomOf(rooms, civzone_id) ==
    IF \E i \in 1 .. Len(rooms) : rooms[i].building_id = civzone_id
    THEN CHOOSE i \in 1 .. Len(rooms) :
            rooms[i].building_id = civzone_id
            /\ \A j \in 1 .. i - 1 : rooms[j].building_id # civzone_id
    ELSE 0

FirstInfoOf(infos, squad_id) ==
    IF \E i \in 1 .. Len(infos) : infos[i].squad_id = squad_id
    THEN CHOOSE i \in 1 .. Len(infos) :
            infos[i].squad_id = squad_id
            /\ \A j \in 1 .. i - 1 : infos[j].squad_id # squad_id
    ELSE 0

\* ------------------------------------------------------------- makeSquad
\* the language_name built at the top of makeSquad
SquadName ==
    [type |-> "Squad",
     words |-> [i \in 1 .. NumWords |-> NoWord],
     parts_of_speech |-> [i \in 1 .. NumWords |-> "Noun"]]

\* one default-constructed squad_schedule_entry with its order_assignments cells
NewScheduleEntry(squad_size) ==
    [sleep_mode |-> 0,
     uniform_mode |-> 0,
     orders |-> <<>>,
     order_assignments |-> [jj \in 1 .. squad_size |-> NoAssignment]]

\* year and year_tick both taken from cur_year_tick
TrainingOrder_TickAsYear(squad_size) ==
    [min_count |-> squad_size,
     positions |-> [jj \in 1 .. squad_size |-> FALSE],
     order |-> [type |-> "squad_order_trainst",
                year |-> cur_year_tick,
                year_tick |-> cur_year_tick,
                unk_v40_3 |-> UnkV40]]

\* the squad_schedule_order the lambda builds
TrainingOrder(squad_size) ==
    [min_count |-> squad_size,
     positions |-> [jj \in 1 .. squad_size |-> FALSE],
     order |-> [type |-> "squad_order_trainst",
                year |-> cur_year,
                year_tick |-> cur_year_tick,
                unk_v40_3 |-> UnkV40]]

\* the lambda insert_training_order; month is 0-based as in the code
insert_training_order(asched, squad_size, month) ==
    [asched EXCEPT ![month + 1] =
        [@ EXCEPT !.orders = Append(@, TrainingOrder(squad_size)),
                  !.uniform_mode = UniformAlways]]

RECURSIVE TrainMonths(_, _, _)
\* for (int index : indices) { insert_training_order(index); asched[index].sleep_mode = 0; }
TrainMonths(asched, squad_size, indices) ==
    IF indices = <<>> THEN asched
    ELSE LET ordered == insert_training_order(asched, squad_size, Head(indices))
             slept == [ordered EXCEPT ![Head(indices) + 1].sleep_mode = SleepAtWill]
         IN  TrainMonths(slept, squad_size, Tail(indices))

SetModes(asched, sleep, uniform) ==
    [i \in 1 .. NumMonths |->
        [asched[i] EXCEPT !.sleep_mode = sleep, !.uniform_mode = uniform]]

\* the parity test inverted
StaggeredIndices_Flipped == IF squad_next_id % 2 = 1 THEN StaggeredEven ELSE StaggeredOdd

StaggeredIndices == IF squad_next_id % 2 = 1 THEN StaggeredOdd ELSE StaggeredEven

AllIndices == [i \in 1 .. NumMonths |-> i - 1]

\* the 12 entries built for one routine
RoutineSchedule(name, squad_size) ==
    LET asched == [kk \in 1 .. NumMonths |-> NewScheduleEntry(squad_size)]
    IN  IF name = "Off duty" THEN SetModes(asched, SleepAtWill, UniformOrdersOnly)
        ELSE IF name = "Staggered training"
             THEN TrainMonths(asched, squad_size, StaggeredIndices)
        ELSE IF name = "Constant training"
             THEN TrainMonths(asched, squad_size, AllIndices)
        ELSE IF name = "Ready" THEN SetModes(asched, SleepReady, UniformAlways)
        ELSE SetModes(asched, SleepAtWill, UniformAlways)

\* the df::squad built by makeSquad before it modifies any state
NewSquad(position, assignment) ==
    [id |-> squad_next_id,
     alias |-> "",
     name |-> SquadName,
     cur_routine_idx |-> 0,
     uniform_priority |-> squad_next_id + 1,
     activity |-> NoActivity,
     carry_food |-> CarryFood,
     carry_water |-> CarryWater,
     entity_id |-> GroupId,
     leader_position |-> position.id,
     leader_assignment |-> assignment.id,
     ammo_update |-> 0,
     positions |-> [i \in 1 .. position.squad_size |-> [flags |-> 0]],
     schedule |-> [r \in 1 .. Len(routines) |->
                      RoutineSchedule(routines[r], position.squad_size)],
     rooms |-> <<>>]

\* what `last` holds: the operation, its argument or the objects it resolved
\* (squad and zone are ids, NoSquadId and 0 standing for nullptr), the flags and
\* the two room lookups once the call has got as far as reading them, and the
\* value returned
LastCall(op, assignment_id, squad, zone, flags, from_squad, from_building, ret) ==
    [op |-> op, assignment_id |-> assignment_id, squad |-> squad, zone |-> zone,
     flags |-> flags, room_from_squad |-> from_squad,
     room_from_building |-> from_building, ret |-> ret]

MakeSquadReturns(assignment_id, ret) ==
    LastCall("makeSquad", assignment_id, NoSquadId, 0, 0, FALSE, FALSE, ret)

\* the checks of makeSquad that return nullptr
found_assignment(assignment_id) == FirstWithId(fort_assignments, assignment_id)

corresponding_position(assignment_id) ==
    FirstWithId(fort_own, fort_assignments[found_assignment(assignment_id)].position_id)

\* makeSquad without the test of the assignment's squad reference
MakeSquadFails_IgnoresBound(assignment_id) ==
    \/ ~globals_available
    \/ found_assignment(assignment_id) = 0
    \/ corresponding_position(assignment_id) = 0

MakeSquadFails(assignment_id) ==
    \/ ~globals_available
    \/ found_assignment(assignment_id) = 0
    \/ fort_assignments[found_assignment(assignment_id)].squad_id # NoSquadId
    \/ corresponding_position(assignment_id) = 0

\* the four assignments that modify state, in the code's order
\* the counter left as it was
NextIdAfter_Same == squad_next_id

NextIdAfter == squad_next_id + 1

\* the entity's squad list left as it was
FortSquadsAfter_Forgotten(result) == fort_squads

FortSquadsAfter(result) == Append(fort_squads, result.id)

RegistryAfter(result) == Append(squads_all, result)

AssignmentsAfter(a, result) == [fort_assignments EXCEPT ![a].squad_id = result.id]

makeSquad(assignment_id) ==
    IF MakeSquadFails(assignment_id)
    THEN /\ last' = MakeSquadReturns(assignment_id, nullptr)
         /\ UNCHANGED <<host, squad_next_id, fort_assignments, fort_squads,
                        squads_all, squad_room_info>>
    ELSE LET a == found_assignment(assignment_id)
             result == NewSquad(fort_own[corresponding_position(assignment_id)],
                                fort_assignments[a])
         IN  /\ squad_next_id < MaxNextId
             /\ squad_next_id' = NextIdAfter
             /\ fort_squads' = FortSquadsAfter(result)
             /\ squads_all' = RegistryAfter(result)
             /\ fort_assignments' = AssignmentsAfter(a, result)
             /\ last' = MakeSquadReturns(assignment_id, result)
             /\ UNCHANGED <<host, squad_room_info>>

\* ------------------------------------------------- updateRoomAssignments
\* df::squad::find: index in world->squads.all of the squad with this id, 0 for nullptr
FindSquad(squad_id) == FirstWithId(squads_all, squad_id)

\* df::building::find followed by strict_virtual_cast<df::building_civzonest>
IsCivzone(civzone_id) ==
    civzone_id \in 1 .. Len(Buildings) /\ Buildings[civzone_id] = "civzone"

\* the squad's records all kept
EraseRooms_Keep(rooms, civzone_id, i) == rooms

RECURSIVE EraseRooms(_, _, _)
\* the erase loop at the end of updateRoomAssignments; i is 0-based as in the code
EraseRooms(rooms, civzone_id, i) ==
    IF i >= Len(rooms) THEN rooms
    ELSE IF rooms[i + 1].building_id = civzone_id
         THEN EraseRooms(SubSeq(rooms, 1, i) \o SubSeq(rooms, i + 2, Len(rooms)),
                         civzone_id, i)
         ELSE EraseRooms(rooms, civzone_id, i + 1)

\* the mode of a squad-side record written only when the record is new
RoomsAfter_KeepMode(rooms, from_squad, civzone_id, flags) ==
    LET avoiding_squad_roundtrip == flags = 0 /\ from_squad = 0
        created == IF ~avoiding_squad_roundtrip /\ from_squad = 0
                   THEN SortRooms(Append(rooms, [building_id |-> civzone_id, mode |-> flags]))
                   ELSE rooms
    IN  IF flags = 0 /\ ~avoiding_squad_roundtrip
        THEN EraseRooms(created, civzone_id, 0)
        ELSE created

\* squad->rooms after the call, given the list before it
RoomsAfter(rooms, from_squad, civzone_id, flags) ==
    LET avoiding_squad_roundtrip == flags = 0 /\ from_squad = 0
        created == IF ~avoiding_squad_roundtrip /\ from_squad = 0
                   THEN SortRooms(Append(rooms, [building_id |-> civzone_id, mode |-> 0]))
                   ELSE rooms
        room_from_squad == FirstRoomOf(created, civzone_id)
        moded == IF room_from_squad # 0
                 THEN [created EXCEPT ![room_from_squad].mode = flags]
                 ELSE created
    IN  IF flags = 0 /\ ~avoiding_squad_roundtrip
        THEN EraseRooms(moded, civzone_id, 0)
        ELSE moded

\* no zone-side record made when it is missing
RoomInfoAfter_NoCreate(infos, from_building, squad_id, flags) ==
    IF from_building = 0 THEN infos
    ELSE [infos EXCEPT ![from_building].mode = flags]

\* zone->squad_room_info after the call, given the list before it
RoomInfoAfter(infos, from_building, squad_id, flags) ==
    LET created == IF from_building = 0
                   THEN SortRoomInfo(Append(infos, [squad_id |-> squad_id, mode |-> 0]))
                   ELSE infos
        room_from_building == FirstInfoOf(created, squad_id)
    IN  [created EXCEPT ![room_from_building].mode = flags]

\* the early return left out
NothingToDo_Never(flags, from_squad, from_building) == FALSE

\* if (flags.whole == 0 && room_from_squad == nullptr && room_from_building == nullptr)
NothingToDo(flags, from_squad, from_building) ==
    flags = 0 /\ from_squad = 0 /\ from_building = 0

updateRoomAssignments(squad_id, civzone_id, flags) ==
    LET squad == FindSquad(squad_id)
        zone == IF IsCivzone(civzone_id) THEN civzone_id ELSE 0
    IN  IF squad = 0 \/ zone = 0
        THEN /\ last' = LastCall("updateRoomAssignments", 0,
                                 IF squad = 0 THEN NoSquadId ELSE squad_id, zone,
                                 0, FALSE, FALSE, nullptr)
             /\ UNCHANGED <<host, squad_next_id, fort_assignments, fort_squads,
                            squads_all, squad_room_info>>
        ELSE LET from_squad == FirstRoomOf(squads_all[squad].rooms, civzone_id)
                 from_building == FirstInfoOf(squad_room_info[zone], squad_id)
             IN  /\ last' = LastCall("updateRoomAssignments", 0, squad_id, zone, flags,
                                     from_squad # 0, from_building # 0, nullptr)
                 /\ IF NothingToDo(flags, from_squad, from_building)
                    THEN UNCHANGED <<squads_all, squad_room_info>>
                    ELSE /\ squads_all' =
                              [squads_all EXCEPT ![squad].rooms =
                                  RoomsAfter(@, from_squad, civzone_id, flags)]
                         /\ squad_room_info' =
                              [squad_room_info EXCEPT ![zone] =
                                  RoomInfoAfter(@, from_building, squad_id, flags)]
                 /\ UNCHANGED <<host, squad_next_id, fort_assignments, fort_squads>>

Init ==
    /\ globals_available \in BOOLEAN
    /\ squad_next_id \in 0 .. MaxInitId
    /\ \E t \in TimeValues : cur_year = t.year /\ cur_year_tick = t.tick
    /\ routines \in RoutineLists
    /\ \E size \in [1 .. Len(PositionIds) -> 0 .. MaxSquadSize] :
          fort_own = [p \in 1 .. Len(PositionIds) |->
                         [id |-> PositionIds[p], squad_size |-> size[p]]]
    /\ fort_assignments =
          [a \in 1 .. Len(Assignments) |->
              [id |-> Assignments[a].id, position_id |-> Assignments[a].position_id,
               squad_id |-> NoSquadId]]
    /\ fort_squads = <<>>
    /\ squads_all = <<>>
    /\ squad_room_info = [z \in ZoneIds |-> <<>>]
    /\ last = LastCall("none", 0, NoSquadId, 0, 0, FALSE, FALSE, nullptr)

\* one fort: a single alert routine, squads of one and two, no squad made yet
InitFort ==
    /\ Init
    /\ globals_available
    /\ squad_next_id = 0
    /\ cur_year = 250
    /\ routines = <<"Ready">>
    /\ \A p \in 1 .. Len(fort_own) : fort_own[p].squad_size = p

MakeSquadCalls ==
    \E assignment_id \in AssignmentArgs : makeSquad(assignment_id)

UpdateRoomCalls ==
    \E squad_id \in SquadArgs, civzone_id \in BuildingArgs, flags \in FlagArgs :
        updateRoomAssignments(squad_id, civzone_id, flags)

Next == MakeSquadCalls \/ UpdateRoomCalls

\* both operations, called in any order on one fort
Spec == InitFort /\ [][Next]_vars

\* makeSquad alone, on every host configuration
SpecMakeSquad == Init /\ [][MakeSquadCalls]_vars

\* ============================================================ properties
\* ------------------------------------------------------------ makeSquad
MadeSquad(l) == l.op = "makeSquad" /\ l.ret # nullptr

\* the entity's assignments with this id
AssignmentsWithId(assignment_id) ==
    {i \in DOMAIN fort_assignments : fort_assignments[i].id = assignment_id}

HasPosition(position_id) == \E p \in DOMAIN fort_own : fort_own[p].id = position_id

\* the configured squad size of the entity's position with this id
SquadSizeOf(position_id) ==
    LET p == CHOOSE q \in DOMAIN fort_own : fort_own[q].id = position_id
    IN  fort_own[p].squad_size

\* the three reasons C1 gives for makeSquad to refuse an assignment id
Refused(assignment_id) ==
    \/ AssignmentsWithId(assignment_id) = {}
    \/ \E i \in AssignmentsWithId(assignment_id) :
          \/ fort_assignments[i].squad_id # NoSquadId
          \/ ~HasPosition(fort_assignments[i].position_id)

\* C1: a makeSquad call whose assignment id matches no assignment of the
\* entity, or whose assignment already references a squad, or whose
\* assignment's position is no position of the entity, returns no squad and
\* leaves the counter, the entity's squad list, the registry and every
\* assignment as they were.
C1_RefusedCallChangesNothing ==
    [][ (last'.op = "makeSquad" /\ Refused(last'.assignment_id))
           => /\ last'.ret = nullptr
              /\ UNCHANGED <<squad_next_id, fort_squads, squads_all, fort_assignments>>
      ]_vars

\* a refused call on an assignment that a squad is already bound to
C1_Witness ==
    /\ last.op = "makeSquad"
    /\ last.ret = nullptr
    /\ \E i \in AssignmentsWithId(last.assignment_id) :
          fort_assignments[i].squad_id # NoSquadId
    /\ Len(squads_all) = 1

\* C2: a successful makeSquad call returns a squad with as many position
\* slots as the leader position's configured squad size and with the id the
\* counter held before the call, and leaves the counter one greater.
C2_SizeIdAndCounter ==
    [][ MadeSquad(last')
           => /\ \A i \in AssignmentsWithId(last'.assignment_id) :
                    Len(last'.ret.positions)
                        = SquadSizeOf(fort_assignments[i].position_id)
              /\ last'.ret.id = squad_next_id
              /\ squad_next_id' = squad_next_id + 1
      ]_vars

\* a second squad, of two slots, has just been made
C2_Witness ==
    /\ MadeSquad(last)
    /\ Len(last.ret.positions) = 2
    /\ last.ret.id > 0
    /\ squad_next_id = last.ret.id + 1

\* the squads of the registry led by this assignment
LedBy(assignment_id) ==
    {k \in DOMAIN squads_all : squads_all[k].leader_assignment = assignment_id}

\* C3: between makeSquad calls, an assignment references a squad exactly when
\* one registered squad has it as leader assignment, that squad's id is the
\* reference, and the id is in the entity's squad list.
C3_LinkRegistryAndListTogether ==
    \A i \in DOMAIN fort_assignments :
        LET a == fort_assignments[i]
        IN  (a.squad_id # NoSquadId)
               <=> /\ Cardinality(LedBy(a.id)) = 1
                   /\ \A k \in LedBy(a.id) : squads_all[k].id = a.squad_id
                   /\ \E j \in DOMAIN fort_squads : fort_squads[j] = a.squad_id

\* two assignments bound to two squads, a third still unbound
C3_Witness ==
    /\ Len(squads_all) = 2
    /\ Cardinality({i \in DOMAIN fort_assignments :
                       fort_assignments[i].squad_id # NoSquadId}) = 2
    /\ \E i \in DOMAIN fort_assignments : fort_assignments[i].squad_id = NoSquadId

OddSlots == {3, 4, 5, 9, 10, 11}
EvenSlots == {0, 1, 2, 6, 7, 8}

IsTrainingOrder(o) == o.order.type = "squad_order_trainst"

\* C4: in a squad made while the counter is odd, a routine named "Staggered
\* training" has training orders in exactly slots 3,4,5,9,10,11, each with
\* sleep-mode 0, and no orders in the other six; while it is even, the same
\* with slots 0,1,2,6,7,8.
C4_StaggeredSlots ==
    [][ MadeSquad(last')
           => \A r \in DOMAIN routines :
                 routines[r] = "Staggered training"
                    => LET trained == IF squad_next_id % 2 = 1 THEN OddSlots ELSE EvenSlots
                           asched == last'.ret.schedule[r]
                       IN  \A month \in 0 .. NumMonths - 1 :
                              IF month \in trained
                              THEN /\ asched[month + 1].orders # <<>>
                                   /\ \A k \in DOMAIN asched[month + 1].orders :
                                         IsTrainingOrder(asched[month + 1].orders[k])
                                   /\ asched[month + 1].sleep_mode = 0
                              ELSE asched[month + 1].orders = <<>>
      ]_vars

\* a squad with an odd id whose staggered routine trains in slot 3 and not in slot 0
C4_Witness ==
    /\ MadeSquad(last)
    /\ last.ret.id % 2 = 1
    /\ \E r \in DOMAIN routines :
          /\ routines[r] = "Staggered training"
          /\ last.ret.schedule[r][4].orders # <<>>
          /\ last.ret.schedule[r][1].orders = <<>>

\* the slots of routine r of a squad with this id that receive a training order
TrainedSlots(r, id) ==
    IF routines[r] = "Constant training" THEN 0 .. NumMonths - 1
    ELSE IF routines[r] = "Staggered training"
         THEN (IF id % 2 = 1 THEN OddSlots ELSE EvenSlots)
    ELSE {}

\* C5: in the squad makeSquad returns, every slot that receives a training
\* order holds an order whose minimum count is the squad size, whose position
\* array has that size and whose training order carries the current year and
\* year-tick and -1 in the reserved field; the slot has sleep-mode 0 and
\* uniform-mode 0.
C5_TrainedSlotContents ==
    MadeSquad(last)
       => LET N == SquadSizeOf(last.ret.leader_position)
          IN  \A r \in DOMAIN routines :
                 \A month \in TrainedSlots(r, last.ret.id) :
                    LET slot == last.ret.schedule[r][month + 1]
                    IN  /\ \E k \in DOMAIN slot.orders :
                              /\ slot.orders[k].min_count = N
                              /\ Len(slot.orders[k].positions) = N
                              /\ slot.orders[k].order.year = cur_year
                              /\ slot.orders[k].order.year_tick = cur_year_tick
                              /\ slot.orders[k].order.unk_v40_3 = -1
                        /\ slot.sleep_mode = 0
                        /\ slot.uniform_mode = 0

\* a squad of two whose constant-training routine has an order in its last slot
C5_Witness ==
    /\ MadeSquad(last)
    /\ Len(last.ret.positions) = 2
    /\ \E r \in DOMAIN routines :
          /\ routines[r] = "Constant training"
          /\ Len(last.ret.schedule[r][NumMonths].orders) = 1

\* ------------------------------------------------ updateRoomAssignments
SquadIds == {squads_all[k].id : k \in DOMAIN squads_all}

\* the room list of the registered squad with this id
RoomsOfSquad(squad_id) ==
    LET k == CHOOSE j \in DOMAIN squads_all : squads_all[j].id = squad_id
    IN  squads_all[k].rooms

HasRoom(squad_id, zone) ==
    \E i \in DOMAIN RoomsOfSquad(squad_id) : RoomsOfSquad(squad_id)[i].building_id = zone

HasInfo(zone, squad_id) ==
    \E i \in DOMAIN squad_room_info[zone] : squad_room_info[zone][i].squad_id = squad_id

RoomsSorted(rooms) ==
    \A i \in 1 .. Len(rooms) - 1 : rooms[i].building_id <= rooms[i + 1].building_id

InfosSorted(infos) ==
    \A i \in 1 .. Len(infos) - 1 : infos[i].squad_id <= infos[i + 1].squad_id

\* the call resolved both its squad and its zone
Resolved(l) == l.op = "updateRoomAssignments" /\ l.squad # NoSquadId /\ l.zone # 0

\* C6: after updateRoomAssignments with non-zero flags on an existing squad
\* and an existing civilian zone, the squad's room list has a record for the
\* building and the zone's room-info list has a record for the squad, both
\* carry the given flags, and both lists are sorted by their key.
C6_NonZeroFlagsLinkBothSides ==
    (Resolved(last) /\ last.flags # 0)
       => LET rooms == RoomsOfSquad(last.squad)
              infos == squad_room_info[last.zone]
          IN  /\ HasRoom(last.squad, last.zone)
              /\ HasInfo(last.zone, last.squad)
              /\ \A i \in DOMAIN rooms :
                    rooms[i].building_id = last.zone => rooms[i].mode = last.flags
              /\ \A i \in DOMAIN infos :
                    infos[i].squad_id = last.squad => infos[i].mode = last.flags
              /\ RoomsSorted(rooms)
              /\ InfosSorted(infos)

\* both records were missing and each was put in front of an older record
C6_Witness ==
    /\ Resolved(last)
    /\ last.flags # 0
    /\ ~last.room_from_squad
    /\ ~last.room_from_building
    /\ Len(RoomsOfSquad(last.squad)) = 2
    /\ RoomsOfSquad(last.squad)[1].building_id = last.zone
    /\ Len(squad_room_info[last.zone]) = 2
    /\ squad_room_info[last.zone][1].squad_id = last.squad

\* C7: updateRoomAssignments with all-zero flags on a pair that has a
\* squad-side and a zone-side record with non-zero flags removes every
\* squad-side record for the building, keeps the squad's other records in
\* order, and leaves the zone-side record in place with all-zero flags.
C7_ZeroFlagsPruneSquadSideOnly ==
    [][ ( /\ Resolved(last')
          /\ last'.flags = 0
          /\ \E i \in DOMAIN RoomsOfSquad(last'.squad) :
                /\ RoomsOfSquad(last'.squad)[i].building_id = last'.zone
                /\ RoomsOfSquad(last'.squad)[i].mode # 0
          /\ \E i \in DOMAIN squad_room_info[last'.zone] :
                /\ squad_room_info[last'.zone][i].squad_id = last'.squad
                /\ squad_room_info[last'.zone][i].mode # 0 )
           => LET before == RoomsOfSquad(last'.squad)
                  Other(r) == r.building_id # last'.zone
                  k == CHOOSE j \in DOMAIN squads_all : squads_all[j].id = last'.squad
                  infos == squad_room_info'[last'.zone]
              IN  /\ squads_all'[k].rooms = SelectSeq(before, Other)
                  /\ \E i \in DOMAIN infos : infos[i].squad_id = last'.squad
                  /\ \A i \in DOMAIN infos :
                        infos[i].squad_id = last'.squad => infos[i].mode = 0
      ]_vars

\* access was revoked for one zone while the squad keeps its record for another
C7_Witness ==
    /\ Resolved(last)
    /\ last.flags = 0
    /\ last.room_from_squad
    /\ last.room_from_building
    /\ ~HasRoom(last.squad, last.zone)
    /\ HasInfo(last.zone, last.squad)
    /\ Len(RoomsOfSquad(last.squad)) = 1

\* C8: updateRoomAssignments changes nothing when the squad id is unknown,
\* when the building id is unknown or is no civilian zone, or when the flags
\* are all-zero and the pair has no record in either direction.
C8_NoMutationWhenNothingToLink ==
    [][ ( /\ last'.op = "updateRoomAssignments"
          /\ \/ last'.squad = NoSquadId
             \/ last'.zone = 0
             \/ /\ last'.flags = 0
                /\ ~HasRoom(last'.squad, last'.zone)
                /\ ~HasInfo(last'.zone, last'.squad) )
           => UNCHANGED <<squads_all, squad_room_info, fort_squads, fort_assignments,
                          squad_next_id, host>>
      ]_vars

\* all-zero flags for a pair with no record, while another pair is linked
C8_Witness ==
    /\ Resolved(last)
    /\ last.flags = 0
    /\ ~last.room_from_squad
    /\ ~last.room_from_building
    /\ ~HasInfo(last.zone, last.squad)
    /\ \E s \in SquadIds, z \in ZoneIds : HasRoom(s, z)

\* C9 as claimed: between calls, a squad-side record for (squad, building)
\* exists exactly when a zone-side record for (building, squad) exists.
C9_BothSidesOrNeither ==
    \A s \in SquadIds, z \in ZoneIds : HasRoom(s, z) <=> HasInfo(z, s)

HasInfoWithFlags(zone, squad_id) ==
    \E i \in DOMAIN squad_room_info[zone] :
        /\ squad_room_info[zone][i].squad_id = squad_id
        /\ squad_room_info[zone][i].mode # 0

\* C9 amended: between calls, a squad-side record for (squad, building) exists
\* exactly when a zone-side record for (building, squad) with non-zero flags
\* exists; a zone-side record with all-zero flags has no squad-side record.
C9_SquadSideIffZoneSideWithFlags ==
    \A s \in SquadIds, z \in ZoneIds : HasRoom(s, z) <=> HasInfoWithFlags(z, s)

\* one pair linked on both sides, another left with a zero-flag zone-side record only
C9_Witness ==
    /\ \E s \in SquadIds, z \in ZoneIds : HasRoom(s, z) /\ HasInfoWithFlags(z, s)
    /\ \E s \in SquadIds, z \in ZoneIds :
          ~HasRoom(s, z) /\ HasInfo(z, s) /\ ~HasInfoWithFlags(z, s)

\* C10: between calls, a squad's room list has at most one record per
\* building and a zone's room-info list at most one per squad, every
\* squad-side record has non-zero flags and a zone-side record with the same
\* flags, and both lists are sorted by their key.
C10_RoomListsWellFormed ==
    /\ \A s \in SquadIds :
          LET rooms == RoomsOfSquad(s)
          IN  /\ \A i, j \in DOMAIN rooms :
                    rooms[i].building_id = rooms[j].building_id => i = j
              /\ \A i \in DOMAIN rooms :
                    /\ rooms[i].mode # 0
                    /\ rooms[i].building_id \in ZoneIds
                    /\ \E k \in DOMAIN squad_room_info[rooms[i].building_id] :
                          /\ squad_room_info[rooms[i].building_id][k].squad_id = s
                          /\ squad_room_info[rooms[i].building_id][k].mode = rooms[i].mode
              /\ RoomsSorted(rooms)
    /\ \A z \in ZoneIds :
          LET infos == squad_room_info[z]
          IN  /\ \A i, j \in DOMAIN infos : infos[i].squad_id = infos[j].squad_id => i = j
              /\ InfosSorted(infos)

\* a squad with two rooms of different flags in a zone that two squads use
C10_Witness ==
    \E s \in SquadIds :
        /\ Len(RoomsOfSquad(s)) = 2
        /\ RoomsOfSquad(s)[1].mode # RoomsOfSquad(s)[2].mode
        /\ \E z \in ZoneIds : Len(squad_room_info[z]) = 2 /\ HasRoom(s, z)

====
